---- MODULE Spec2Model ----
(***************************************************************************)
(* Model of src/src/index.ts: class Route (constructor, match, parse,      *)
(* compile) together with the module-level PARAM_MATCHER regular           *)
(* expression.  Strings are sequences of one-character strings.            *)
(***************************************************************************)
EXTENDS Naturals, Sequences, FiniteSets, TLC

(***************************************************************************)
(* Bounds of the model.                                                    *)
(***************************************************************************)
\* a template is the concatenation of at most MaxPieces pieces
MaxPieces == 3
\* a path handed to match / parse has at most MaxPathLen characters
MaxPathLen == 3
\* a parameter value handed to compile has at most MaxValLen characters
MaxValLen == 2

(***************************************************************************)
(* Input alphabets.  Templates are built from single characters (a         *)
(* separator, a letter, the regular-expression metacharacters '.', '(' and *)
(* ')', lone braces) and from whole placeholders.                          *)
(***************************************************************************)
Pieces ==
    { <<"/">>, <<"a">>, <<".">>, <<"(">>, <<")">>, <<"{">>, <<"}">>,
      <<"{", "a", "}">>, <<"{", "b", "}">> }

PathChars == {"/", "a", "."}

ValueChars == {"a"}

ParamKeys == { <<"a">>, <<"b">> }

RECURSIVE Flatten(_)
Flatten(ss) == IF ss = <<>> THEN <<>> ELSE Head(ss) \o Flatten(Tail(ss))

Strings(chars, n) == UNION { [1..k -> chars] : k \in 0..n }

Templates == { Flatten(ps) : ps \in UNION { [1..k -> Pieces] : k \in 1..MaxPieces } }

Paths == Strings(PathChars, MaxPathLen)

\* the empty string, runs of letters, and one value holding a separator
Values == Strings(ValueChars, MaxValLen) \cup { <<"/">> }

\* the argument of compile: undefined (the default of an omitted argument),
\* or an object holding some of the keys
Undefined == [given |-> FALSE, obj |-> <<>>]

Object(obj) == [given |-> TRUE, obj |-> obj]

ParamObjects == UNION { [ks -> Values] : ks \in SUBSET ParamKeys }

CompileArgs == {Undefined} \cup { Object(o) : o \in ParamObjects }

(***************************************************************************)
(* PARAM_MATCHER = /\{([^{}]+)\}/g                                         *)
(***************************************************************************)
IsBrace(c) == c \in {"{", "}"}

\* length of the run of characters that are neither '{' nor '}' from index i
RECURSIVE NameRun(_, _)
NameRun(s, i) ==
    IF i > Len(s) \/ IsBrace(s[i]) THEN 0 ELSE 1 + NameRun(s, i + 1)

\* variant: the name may be empty, as under /\{([^{}]*)\}/g
ParamMatchAtEmptyName(s, i) ==
    IF i <= Len(s) /\ s[i] = "{"
    THEN LET r == NameRun(s, i + 1)
         IN IF i + r + 1 <= Len(s) /\ s[i + r + 1] = "}"
            THEN <<[from |-> i, to |-> i + r + 1]>>
            ELSE <<>>
    ELSE <<>>

\* the span of PARAM_MATCHER matched at index i exactly, or <<>>:
\* '{', then one or more non-brace characters, then '}'
ParamMatchAt(s, i) ==
    IF i <= Len(s) /\ s[i] = "{"
    THEN LET r == NameRun(s, i + 1)
         IN IF r >= 1 /\ i + r + 1 <= Len(s) /\ s[i + r + 1] = "}"
            THEN <<[from |-> i, to |-> i + r + 1]>>
            ELSE <<>>
    ELSE <<>>

\* every match of the global regex scanning from index i (1-based), leftmost
\* first, each scan resuming right after the previous match
RECURSIVE ParamMatches(_, _)
ParamMatches(s, i) ==
    IF i > Len(s) THEN <<>>
    ELSE LET m == ParamMatchAt(s, i)
         IN IF m = <<>> THEN ParamMatches(s, i + 1)
            ELSE m \o ParamMatches(s, m[1].to + 1)

\* String.prototype.replaceAll with a global regex resets lastIndex to 0
\* before scanning, whatever an earlier use left behind
ReplaceAllStart(lastIndex) == 0

\* the scan ends on a failed exec, which leaves lastIndex at 0
ReplaceAllEnd(s, spans) == 0

\* matchedParam.slice(1, -1)
Slice1(s, span) == SubSeq(s, span.from + 1, span.to - 1)

\* the string with span k replaced by reps[k], the text between kept
RECURSIVE Splice(_, _, _, _, _)
Splice(s, spans, reps, k, from) ==
    IF k > Len(spans) THEN SubSeq(s, from, Len(s))
    ELSE SubSeq(s, from, spans[k].from - 1) \o reps[k]
         \o Splice(s, spans, reps, k + 1, spans[k].to + 1)

PARAM_REGEX_STRING == <<"(", "[", "^", "/", "]", "+", ")">>

(***************************************************************************)
(* RegExp: the subset of the pattern syntax the alphabets above can spell. *)
(* A compiled pattern is a sequence of tokens [t, c, g]:                   *)
(*   "bol" ^    "eol" $    "any" .    "chr" the character c                *)
(*   "open" / "close" the parentheses of capture group g, groups numbered  *)
(*   by their opening parenthesis, left to right                           *)
(*   "cls" the class [^/], "plus" the class [^/] under the quantifier +    *)
(***************************************************************************)
Tok(t, c, g) == [t |-> t, c |-> c, g |-> g]

SyntaxError == [error |-> TRUE, tokens |-> <<>>, groups |-> 0]

IsClassAt(src, i) ==
    /\ i + 3 <= Len(src)
    /\ src[i] = "[" /\ src[i + 1] = "^" /\ src[i + 2] = "/" /\ src[i + 3] = "]"

RECURSIVE RegExpParse(_, _, _, _, _)
RegExpParse(src, i, stack, groups, toks) ==
    IF i > Len(src)
    THEN IF stack = <<>>
         THEN [error |-> FALSE, tokens |-> toks, groups |-> groups]
         ELSE SyntaxError                           \* unterminated group
    ELSE LET c == src[i] IN
         CASE c = "(" ->
                RegExpParse(src, i + 1, <<groups + 1>> \o stack, groups + 1,
                            Append(toks, Tok("open", "", groups + 1)))
           [] c = ")" ->
                IF stack = <<>> THEN SyntaxError    \* unmatched ')'
                ELSE RegExpParse(src, i + 1, Tail(stack), groups,
                                 Append(toks, Tok("close", "", Head(stack))))
           [] c = "^" -> RegExpParse(src, i + 1, stack, groups, Append(toks, Tok("bol", "", 0)))
           [] c = "$" -> RegExpParse(src, i + 1, stack, groups, Append(toks, Tok("eol", "", 0)))
           [] c = "." -> RegExpParse(src, i + 1, stack, groups, Append(toks, Tok("any", "", 0)))
           [] c = "[" ->
                IF ~IsClassAt(src, i) THEN SyntaxError
                ELSE IF i + 4 <= Len(src) /\ src[i + 4] = "+"
                     THEN RegExpParse(src, i + 5, stack, groups, Append(toks, Tok("plus", "", 0)))
                     ELSE RegExpParse(src, i + 4, stack, groups, Append(toks, Tok("cls", "", 0)))
           [] c = "+" -> SyntaxError                \* nothing to repeat
           [] OTHER -> RegExpParse(src, i + 1, stack, groups, Append(toks, Tok("chr", c, 0)))

\* variant: the matcher built with the global flag
RegExpFlagsGlobal == "g"

\* the flags handed to new RegExp(...) by the constructor: none
RegExpFlags == ""

\* new RegExp(src, flags): a RegExp object, or SyntaxError
RegExpNew(src, flags) ==
    LET p == RegExpParse(src, 1, <<>>, 0, <<>>)
    IN IF p.error THEN SyntaxError
       ELSE [error |-> FALSE, tokens |-> p.tokens, groups |-> p.groups,
             global |-> (flags = "g"), lastIndex |-> 0]

NoMatch == [ok |-> FALSE, end |-> 0, caps |-> <<>>]

\* number of characters from pos on that [^/] accepts
RECURSIVE ClassRun(_, _)
ClassRun(s, pos) ==
    IF pos > Len(s) \/ s[pos] = "/" THEN 0 ELSE 1 + ClassRun(s, pos + 1)

\* backtracking matcher: tokens k.. against s from pos; starts[g] is where
\* group g opened, caps[g] the text it captured
RECURSIVE Run(_, _, _, _, _, _)
RECURSIVE TryPlus(_, _, _, _, _, _, _)
Run(toks, k, s, pos, starts, caps) ==
    IF k > Len(toks) THEN [ok |-> TRUE, end |-> pos, caps |-> caps]
    ELSE LET tk == toks[k] IN
         CASE tk.t = "bol" ->
                IF pos = 1 THEN Run(toks, k + 1, s, pos, starts, caps) ELSE NoMatch
           [] tk.t = "eol" ->
                IF pos = Len(s) + 1 THEN Run(toks, k + 1, s, pos, starts, caps) ELSE NoMatch
           [] tk.t = "any" ->
                IF pos <= Len(s) THEN Run(toks, k + 1, s, pos + 1, starts, caps) ELSE NoMatch
           [] tk.t = "chr" ->
                IF pos <= Len(s) /\ s[pos] = tk.c
                THEN Run(toks, k + 1, s, pos + 1, starts, caps) ELSE NoMatch
           [] tk.t = "cls" ->
                IF pos <= Len(s) /\ s[pos] # "/"
                THEN Run(toks, k + 1, s, pos + 1, starts, caps) ELSE NoMatch
           [] tk.t = "open" ->
                Run(toks, k + 1, s, pos, [starts EXCEPT ![tk.g] = pos], caps)
           [] tk.t = "close" ->
                Run(toks, k + 1, s, pos, starts,
                    [caps EXCEPT ![tk.g] = SubSeq(s, starts[tk.g], pos - 1)])
           [] tk.t = "plus" ->
                TryPlus(toks, k, s, pos, ClassRun(s, pos), starts, caps)
\* greedy: the longest repetition first, then one character fewer at a time
TryPlus(toks, k, s, pos, n, starts, caps) ==
    IF n < 1 THEN NoMatch
    ELSE LET r == Run(toks, k + 1, s, pos + n, starts, caps)
         IN IF r.ok THEN r ELSE TryPlus(toks, k, s, pos, n - 1, starts, caps)

\* the match attempted at index pos, then pos + 1, ... (no sticky flag)
RECURSIVE ExecFrom(_, _, _)
ExecFrom(rx, s, pos) ==
    IF pos > Len(s) + 1 THEN NoMatch
    ELSE LET r == Run(rx.tokens, 1, s, pos, [g \in 1..rx.groups |-> 0],
                      [g \in 1..rx.groups |-> <<>>])
         IN IF r.ok THEN [ok |-> TRUE, end |-> r.end,
                          caps |-> <<SubSeq(s, pos, r.end - 1)>> \o r.caps]
            ELSE ExecFrom(rx, s, pos + 1)

\* RegExpBuiltinExec: [ok, caps (the match array: whole match, then one
\* entry per group), lastIndex (the object's lastIndex afterwards)]
RegExpExec(rx, s) ==
    LET start == IF rx.global THEN rx.lastIndex ELSE 0
        r == ExecFrom(rx, s, start + 1)
    IN [ok |-> r.ok, caps |-> r.caps,
        lastIndex |-> IF rx.global THEN (IF r.ok THEN r.end - 1 ELSE 0)
                      ELSE rx.lastIndex]

\* String.prototype.match(rx): without the global flag the exec result; with
\* it, lastIndex is reset and the array holds the whole matches only
StringMatch(rx, s) ==
    IF rx.global
    THEN LET r == ExecFrom(rx, s, 1)
         IN [ok |-> r.ok, caps |-> IF r.ok THEN <<r.caps[1]>> ELSE <<>>, lastIndex |-> 0]
    ELSE RegExpExec(rx, s)

(***************************************************************************)
(* class Route                                                             *)
(***************************************************************************)
\* the names pushed by the constructor's replacer, one per match, in order
ParamNamesOf(format, spans) ==
    [k \in 1..Len(spans) |-> Slice1(format, spans[k])]

\* format.replaceAll(PARAM_MATCHER, () => PARAM_REGEX_STRING)
RegexStringOf(format, spans) ==
    Splice(format, spans, [k \in 1..Len(spans) |-> PARAM_REGEX_STRING], 1, 1)

\* new Route(format), PARAM_MATCHER.lastIndex being li on entry:
\* [thrown, route, lastIndex]; the RegExp constructor throws on an ill-formed
\* pattern and no Route object results
Constructor(format, li) ==
    LET spans == ParamMatches(format, ReplaceAllStart(li) + 1)
        paramNames == ParamNamesOf(format, spans)
        regex == RegExpNew(<<"^">> \o RegexStringOf(format, spans) \o <<"$">>, RegExpFlags)
    IN [thrown |-> regex.error,
        route |-> [format |-> format,
                   paramNames |-> paramNames,
                   isStatic |-> (Len(paramNames) = 0),
                   regex |-> regex],
        lastIndex |-> ReplaceAllEnd(format, spans)]

\* route.match(path): [out, regex (the matcher object afterwards)]
RouteMatch(route, path) ==
    LET r == RegExpExec(route.regex, path)
    IN [out |-> r.ok, regex |-> [route.regex EXCEPT !.lastIndex = r.lastIndex]]

\* params[key] = value
Assign(obj, key, value) ==
    [x \in (DOMAIN obj) \cup {key} |-> IF x = key THEN value ELSE obj[x]]

\* the property key an undefined paramNames[i - 1] is converted to
UndefinedKey == <<"u", "n", "d", "e", "f", "i", "n", "e", "d">>

EmptyObject == [x \in {} |-> <<>>]

\* variant: segment = match[i - 1], the whole match taken for the first group
RECURSIVE ParseLoopWholeMatch(_, _, _, _)
ParseLoopWholeMatch(paramNames, match, i, params) ==
    IF i >= Len(match) THEN params
    ELSE LET segment == match[i]
             paramName == IF i <= Len(paramNames) THEN paramNames[i] ELSE UndefinedKey
         IN ParseLoopWholeMatch(paramNames, match, i + 1, Assign(params, paramName, segment))

\* variant: paramName = this.paramNames[i], the names shifted by one
RECURSIVE ParseLoopNextName(_, _, _, _)
ParseLoopNextName(paramNames, match, i, params) ==
    IF i >= Len(match) THEN params
    ELSE LET segment == match[i + 1]
             paramName == IF i + 1 <= Len(paramNames) THEN paramNames[i + 1] ELSE UndefinedKey
         IN ParseLoopNextName(paramNames, match, i + 1, Assign(params, paramName, segment))

\* the loop of parse: for (let i = 1; i < match.length; i++)
RECURSIVE ParseLoop(_, _, _, _)
ParseLoop(paramNames, match, i, params) ==
    IF i >= Len(match) THEN params
    ELSE LET segment == match[i + 1]
             paramName == IF i <= Len(paramNames) THEN paramNames[i] ELSE UndefinedKey
         IN ParseLoop(paramNames, match, i + 1, Assign(params, paramName, segment))

Null == [kind |-> "null", val |-> EmptyObject]

\* route.parse(path): [out (Null or an object), regex]
RouteParse(route, path) ==
    LET r == StringMatch(route.regex, path)
    IN [out |-> IF ~r.ok THEN Null
                ELSE [kind |-> "object",
                      val |-> ParseLoop(route.paramNames, r.caps, 1, EmptyObject)],
        regex |-> [route.regex EXCEPT !.lastIndex = r.lastIndex]]

\* variant: the static branch raising the message of the dynamic branch
UnexpectedParametersAsMissing(format) ==
    <<"expected parameters for non-static url: ", format>>

\* the three messages, kept as their pieces
UnexpectedParameters(format) ==
    <<"expected no parameters for static url: ", format>>
MissingParameters(format) ==
    <<"expected parameters for non-static url: ", format>>
MissingNamedParameter(paramName, format) ==
    <<"expected {", paramName, "} in parameters for url: ", format>>

Throw(msg) == [kind |-> "throw", val |-> msg]
Return(str) == [kind |-> "return", val |-> str]

\* variant: an empty object counts as absent
TruthyNonEmpty(params) == params.given /\ DOMAIN params.obj # {}

\* if (params): every object is truthy, the empty object included
Truthy(params) == params.given

\* variant: only an absent key counts, as under !(paramName in params)
FalsyAbsentOnly(params, paramName) == paramName \notin DOMAIN params.obj

\* !params[paramName]: the key is absent or its value is the empty string
Falsy(params, paramName) ==
    \/ paramName \notin DOMAIN params.obj
    \/ params.obj[paramName] = <<>>

\* route.compile(params), PARAM_MATCHER.lastIndex being li on entry:
\* [out, lastIndex]
RouteCompile(route, params, li) ==
    IF route.isStatic
    THEN [out |-> IF Truthy(params) THEN Throw(UnexpectedParameters(route.format))
                  ELSE Return(route.format),
          lastIndex |-> li]
    ELSE IF ~Truthy(params)
    THEN [out |-> Throw(MissingParameters(route.format)), lastIndex |-> li]
    ELSE LET spans == ParamMatches(route.format, ReplaceAllStart(li) + 1)
             names == ParamNamesOf(route.format, spans)
             bad == {k \in 1..Len(spans) : Falsy(params, names[k])}
         IN [out |-> IF bad # {}
                     THEN LET k == CHOOSE x \in bad : \A y \in bad : x <= y
                          IN Throw(MissingNamedParameter(names[k], route.format))
                     ELSE Return(Splice(route.format, spans,
                                        [k \in 1..Len(spans) |-> params.obj[names[k]]], 1, 1)),
             lastIndex |-> ReplaceAllEnd(route.format, spans)]

(***************************************************************************)
(* State: the Route objects constructed so far, the lastIndex of the       *)
(* module-level PARAM_MATCHER, and the last call with its outcome.         *)
(* created is a history variable: each route as it was when its            *)
(* constructor returned.                                                   *)
(***************************************************************************)
VARIABLES routes, lastIndex, call, created

vars == <<routes, lastIndex, call, created>>

Called(op, format, arg, out) == [op |-> op, format |-> format, arg |-> arg, out |-> out]

NoCall == Called("none", <<>>, <<>>, <<>>)

Init ==
    /\ routes = <<>>
    /\ lastIndex = 0
    /\ call = NoCall
    /\ created = <<>>

\* new Route(format); the outcome keeps what the constructor assigned to
\* this.format, this.paramNames, this.isStatic and whether line 55 threw
Construct(format) ==
    LET c == Constructor(format, lastIndex)
    IN /\ routes' = IF c.thrown THEN routes ELSE Append(routes, c.route)
       /\ created' = IF c.thrown THEN created ELSE Append(created, c.route)
       /\ lastIndex' = c.lastIndex
       /\ call' = Called("new", format, <<>>, c)

\* routes[r].match(path)
Match(r, path) ==
    LET m == RouteMatch(routes[r], path)
    IN /\ routes' = [routes EXCEPT ![r].regex = m.regex]
       /\ call' = Called("match", routes[r].format, path, m.out)
       /\ UNCHANGED <<lastIndex, created>>

\* routes[r].parse(path)
Parse(r, path) ==
    LET p == RouteParse(routes[r], path)
    IN /\ routes' = [routes EXCEPT ![r].regex = p.regex]
       /\ call' = Called("parse", routes[r].format, path, p.out)
       /\ UNCHANGED <<lastIndex, created>>

\* routes[r].compile(params)
Compile(r, params) ==
    LET c == RouteCompile(routes[r], params, lastIndex)
    IN /\ lastIndex' = c.lastIndex
       /\ call' = Called("compile", routes[r].format, params, c.out)
       /\ UNCHANGED <<routes, created>>

\* a route whose constructor has just returned
Fresh == Len(routes) = 1 /\ call.op = "new"

\* Spec: one Route, built from any template, and one operation applied to it
Next ==
    \/ call = NoCall /\ \E f \in Templates : Construct(f)
    \/ Fresh /\ \E p \in Paths : Match(1, p)
    \/ Fresh /\ \E p \in Paths : Parse(1, p)
    \/ Fresh /\ \E a \in CompileArgs : Compile(1, a)

Spec == Init /\ [][Next]_vars

(***************************************************************************)
(* SharedSpec: several Route objects sharing the module's PARAM_MATCHER,   *)
(* constructed and called in any order, any number of times.               *)
(***************************************************************************)
MaxRoutes == 2
MaxSharedLen == 2

SharedTemplates ==
    { <<"/", "a">>,
      <<"/", "{", "a", "}">>,
      <<"{", "a", "}", "/", "{", "b", "}">>,
      <<"(", ")", "{", "a", "}">> }

SharedPaths == Strings({"/", "a"}, MaxSharedLen) \cup { <<"a", "/", "a">> }

SharedArgs ==
    {Undefined} \cup { Object(o) : o \in UNION { [ks -> {<<>>, <<"a">>}] : ks \in SUBSET ParamKeys } }

SharedNext ==
    \/ Len(routes) < MaxRoutes /\ \E f \in SharedTemplates : Construct(f)
    \/ \E r \in 1..Len(routes) : \E p \in SharedPaths : Match(r, p)
    \/ \E r \in 1..Len(routes) : \E p \in SharedPaths : Parse(r, p)
    \/ \E r \in 1..Len(routes) : \E a \in SharedArgs : Compile(r, a)

SharedSpec == Init /\ [][SharedNext]_vars

(***************************************************************************)
(* The statements checked.  What a template means is written here from the *)
(* description of the route grammar, independently of the operators above. *)
(***************************************************************************)
Range(seq) == { seq[k] : k \in DOMAIN seq }

\* f[i..e] is a placeholder: '{', one or more characters that are neither
\* '{' nor '}', then '}'
IsPlaceholder(f, i, e) ==
    /\ 1 <= i /\ i + 1 < e /\ e <= Len(f)
    /\ f[i] = "{" /\ f[e] = "}"
    /\ \A k \in (i + 1)..(e - 1) : f[k] # "{" /\ f[k] # "}"

PlaceholderAt(f, i) == \E e \in 1..Len(f) : IsPlaceholder(f, i, e)

PlaceholderEnd(f, i) == CHOOSE e \in 1..Len(f) : IsPlaceholder(f, i, e)

PlaceholderName(f, i) == SubSeq(f, i + 1, PlaceholderEnd(f, i) - 1)

\* the placeholder names of f from index i on, in order of appearance
RECURSIVE NamesFrom(_, _)
NamesFrom(f, i) ==
    IF i > Len(f) THEN <<>>
    ELSE IF PlaceholderAt(f, i) THEN <<PlaceholderName(f, i)>> \o NamesFrom(f, i + 1)
    ELSE NamesFrom(f, i + 1)

Names(f) == NamesFrom(f, 1)

Dynamic(f) == Names(f) # <<>>

\* index i of f lies inside a placeholder
InPlaceholder(f, i) ==
    \E b \in 1..i : \E e \in i..Len(f) : IsPlaceholder(f, b, e)

\* f with every placeholder replaced by the value obj gives its name
RECURSIVE Substitute(_, _, _)
Substitute(f, i, obj) ==
    IF i > Len(f) THEN <<>>
    ELSE IF PlaceholderAt(f, i)
    THEN obj[PlaceholderName(f, i)] \o Substitute(f, PlaceholderEnd(f, i) + 1, obj)
    ELSE <<f[i]>> \o Substitute(f, i + 1, obj)

\* p[j..] conforms to f[i..]: literal characters verbatim, a placeholder
\* one or more characters other than '/', nothing left over
RECURSIVE Conforms(_, _, _, _)
Conforms(f, i, p, j) ==
    IF i > Len(f) THEN j = Len(p) + 1
    ELSE IF PlaceholderAt(f, i)
    THEN \E n \in 1..Len(p) :
            /\ j + n - 1 <= Len(p)
            /\ \A k \in j..(j + n - 1) : p[k] # "/"
            /\ Conforms(f, PlaceholderEnd(f, i) + 1, p, j + n)
    ELSE j <= Len(p) /\ p[j] = f[i] /\ Conforms(f, i + 1, p, j + 1)

\* the first placeholder name, in template order, without a non-empty value
MissingNames(f, obj) ==
    { k \in 1..Len(Names(f)) : Names(f)[k] \notin DOMAIN obj \/ obj[Names(f)[k]] = <<>> }

FirstMissing(f, obj) ==
    Names(f)[CHOOSE k \in MissingNames(f, obj) : \A y \in MissingNames(f, obj) : k <= y]

\* ---- C9 ------------------------------------------------------------------
\* C9: for every template the constructor keeps format verbatim, sets
\* paramNames to the names of the placeholders in order of appearance
\* (duplicates kept; braces that form no placeholder stay literal characters
\* of the matcher's pattern) and sets isStatic iff paramNames is empty.
BraceChrs(toks) == { k \in 1..Len(toks) : toks[k].t = "chr" /\ IsBrace(toks[k].c) }

LiteralBraces(f) == { i \in 1..Len(f) : IsBrace(f[i]) /\ ~InPlaceholder(f, i) }

C9_Construction ==
    call.op = "new" =>
        /\ call.out.route.format = call.format
        /\ call.out.route.paramNames = Names(call.format)
        /\ call.out.route.isStatic = (call.out.route.paramNames = <<>>)
        /\ ~call.out.thrown =>
             /\ routes = <<call.out.route>>
             /\ Cardinality(BraceChrs(routes[1].regex.tokens))
                  = Cardinality(LiteralBraces(call.format))

\* a template with a repeated name and a brace that forms no placeholder
C9_Witness ==
    /\ call.op = "new" /\ ~call.out.thrown
    /\ Len(routes) = 1
    /\ routes[1].paramNames = << <<"a">>, <<"a">> >>
    /\ LiteralBraces(call.format) # {}

C4_CompileStatic ==
    (call.op = "compile" /\ ~Dynamic(call.format)) =>
        IF call.arg.given
        THEN call.out = [kind |-> "throw",
                         val |-> <<"expected no parameters for static url: ", call.format>>]
        ELSE call.out = [kind |-> "return", val |-> call.format]

\* compile({}) on a static route raised
C4_Witness ==
    /\ call.op = "compile" /\ ~Dynamic(call.format)
    /\ call.arg = Object(EmptyObject)
    /\ call.out.kind = "throw"

C1_MatchIffConforms ==
    call.op = "match" => (call.out = Conforms(call.format, 1, call.arg, 1))

\* ---- C2 ------------------------------------------------------------------
\* start indices of the placeholders of f, in order
RECURSIVE StartsFrom(_, _)
StartsFrom(f, i) ==
    IF i > Len(f) THEN <<>>
    ELSE IF PlaceholderAt(f, i) THEN <<i>> \o StartsFrom(f, i + 1)
    ELSE StartsFrom(f, i + 1)

Starts(f) == StartsFrom(f, 1)

\* the capture group that stands for placeholder k of f in the pattern
\* built from f: groups are numbered by their opening parenthesis
GroupOfPlaceholder(f, k) ==
    k + Cardinality({ i \in 1..Starts(f)[k] : f[i] = "(" /\ ~InPlaceholder(f, i) })

LastOccurrence(names, n) ==
    CHOOSE k \in DOMAIN names : names[k] = n /\ \A j \in DOMAIN names : names[j] = n => j <= k

\* C2: parse(path) is null exactly when match(path) is false; otherwise it
\* is a mapping with exactly one entry per distinct placeholder name, each
\* mapped to the substring of path captured at that placeholder's position
\* (the last occurrence of a repeated name); a static match gives {}.
C2_ParseMapping ==
    call.op = "parse" =>
        LET names == Names(call.format)
            ex == RegExpExec(routes[1].regex, call.arg)
        IN /\ (call.out.kind = "null") = ~RouteMatch(routes[1], call.arg).out
           /\ call.out.kind # "null" =>
                /\ call.out.kind = "object"
                /\ DOMAIN call.out.val = Range(names)
                /\ \A n \in Range(names) :
                     call.out.val[n]
                       = ex.caps[1 + GroupOfPlaceholder(call.format, LastOccurrence(names, n))]

\* ---- C10 -----------------------------------------------------------------
\* C10: the matcher has exactly paramNames.length capture groups, group i
\* being the one that stands for paramNames[i-1]; on a successful parse the
\* number of captured substrings is paramNames.length and no captured
\* substring is assigned to a name outside paramNames.
GroupIsPlaceholder(toks, g) ==
    \E k \in 1..(Len(toks) - 1) :
        toks[k].t = "open" /\ toks[k].g = g /\ toks[k + 1].t = "plus"

C10_GroupsAlign ==
    \A r \in 1..Len(routes) :
        /\ routes[r].regex.groups = Len(routes[r].paramNames)
        /\ \A g \in 1..Len(routes[r].paramNames) :
             GroupIsPlaceholder(routes[r].regex.tokens, g)
        /\ (call.op = "parse" /\ call.format = routes[r].format /\ call.out.kind = "object") =>
             /\ Len(StringMatch(routes[r].regex, call.arg).caps) - 1 = Len(routes[r].paramNames)
             /\ DOMAIN call.out.val \subseteq Range(routes[r].paramNames)

\* ---- C5 ------------------------------------------------------------------
NoSlash(v) == \A k \in DOMAIN v : v[k] # "/"

\* obj assigns every placeholder name of f, and nothing else, a non-empty
\* value without '/'
Assignment(f, obj) ==
    /\ DOMAIN obj = Range(Names(f))
    /\ \A n \in DOMAIN obj : obj[n] # <<>> /\ NoSlash(obj[n])

\* C5 as claimed: for any template and any such assignment, compile(values)
\* does not raise and parse(compile(values)) is the assignment.
C5_ParseAfterCompile ==
    (call.op = "compile" /\ call.arg.given /\ Assignment(call.format, call.arg.obj)) =>
        /\ call.out.kind = "return"
        /\ RouteParse(routes[1], call.out.val).out = [kind |-> "object", val |-> call.arg.obj]

Metachars == {".", "(", ")"}

\* a regular-expression metacharacter in the literal text of f
LiteralMeta(f) == \E i \in 1..Len(f) : f[i] \in Metachars /\ ~InPlaceholder(f, i)

\* a '/' in the literal text between any two consecutive placeholders
Separated(f) ==
    \A k \in 1..(Len(Starts(f)) - 1) :
        \E i \in (PlaceholderEnd(f, Starts(f)[k]) + 1)..(Starts(f)[k + 1] - 1) : f[i] = "/"

\* C5 amended: the round trip holds for a template with at least one
\* placeholder, no regular-expression metacharacter in its literal text and
\* a '/' in the literal text between any two consecutive placeholders.
C5_ParseAfterCompileSeparated ==
    (/\ call.op = "compile" /\ call.arg.given
     /\ Dynamic(call.format) /\ ~LiteralMeta(call.format) /\ Separated(call.format)
     /\ Assignment(call.format, call.arg.obj)) =>
        /\ call.out.kind = "return"
        /\ RouteParse(routes[1], call.out.val).out = [kind |-> "object", val |-> call.arg.obj]

\* '{a}/{b}' compiled with values of different lengths
C5_Witness ==
    /\ call.op = "compile" /\ call.arg.given
    /\ call.format = <<"{", "a", "}", "/", "{", "b", "}">>
    /\ Assignment(call.format, call.arg.obj)
    /\ Len(call.arg.obj[<<"a">>]) # Len(call.arg.obj[<<"b">>])
    /\ call.out.kind = "return"

\* ---- C6 ------------------------------------------------------------------
\* C6 as claimed: whenever parse(path) is not null, compile(parse(path))
\* does not raise and returns exactly path.
C6_CompileAfterParse ==
    (call.op = "parse" /\ call.out.kind = "object") =>
        RouteCompile(routes[1], Object(call.out.val), lastIndex).out
          = [kind |-> "return", val |-> call.arg]

DistinctNames(f) ==
    \A j, k \in DOMAIN Names(f) : Names(f)[j] = Names(f)[k] => j = k

\* C6 amended: the round trip holds for a template with at least one
\* placeholder, pairwise distinct placeholder names and no
\* regular-expression metacharacter in its literal text.
C6_CompileAfterParseDistinct ==
    (/\ call.op = "parse" /\ call.out.kind = "object"
     /\ Dynamic(call.format) /\ DistinctNames(call.format) /\ ~LiteralMeta(call.format)) =>
        RouteCompile(routes[1], Object(call.out.val), lastIndex).out
          = [kind |-> "return", val |-> call.arg]

\* a path parsed by a template with literal text and two placeholders
C6_Witness ==
    /\ call.op = "parse" /\ call.out.kind = "object"
    /\ Len(Names(call.format)) = 2 /\ DistinctNames(call.format)
    /\ ~LiteralMeta(call.format)
    /\ Len(call.arg) = 3

\* ---- C8 ------------------------------------------------------------------
\* the outcome of the call on a route constructed from its template just
\* for this call, with PARAM_MATCHER untouched
OnFreshRoute(c) ==
    LET route == Constructor(c.format, 0).route
    IN CASE c.op = "match" -> RouteMatch(route, c.arg).out
         [] c.op = "parse" -> RouteParse(route, c.arg).out
         [] c.op = "compile" -> RouteCompile(route, c.arg, 0).out

\* C8: after any sequence of constructions and match, parse and compile
\* calls on any routes, every route's format, paramNames, isStatic and
\* matcher are as its constructor left them, the shared PARAM_MATCHER is at
\* rest, and the outcome of the last call is the one its argument and the
\* route's template alone determine.
C8_Immutable ==
    /\ routes = created
    /\ lastIndex = 0
    /\ call.op \in {"match", "parse", "compile"} => call.out = OnFreshRoute(call)

\* a successful match on the first route after a second route, of another
\* template, was constructed
C8_Witness ==
    /\ Len(routes) = 2
    /\ routes[1].format # routes[2].format
    /\ call.op = "match" /\ call.format = routes[1].format /\ call.out = TRUE

====
